---- MODULE Spec2Model ----
(***************************************************************************)
(* Model of video/models.py: the poster derivation of VideoPosterMixin     *)
(* and the .bak version chain of GlossVideo.reversion, over a filesystem   *)
(* that maps the paths that exist to the content stored there.             *)
(*                                                                         *)
(* Names, paths and URLs are sequences of one-character strings, so that   *)
(* os.path.splitext and the '.bak' / '.jpg' suffix handling are computed   *)
(* character by character as the library computes them.                   *)
(***************************************************************************)
EXTENDS Integers, Sequences, FiniteSets, TLC

VARIABLES
    fs,       \* the storage: [existing path -> content]
    mem,      \* mem[r]: the in-memory GlossVideo object r (version, videofile.name)
    db,       \* db[r]: the persisted row of r (exists, version, name)
    last,     \* log of the most recent call
    prev,     \* log of the call before it
    nops,     \* number of calls made so far
    run,      \* run[p]: the reversion() execution of request p, step by step
    conv,     \* a name handed to a naming function, and what came back
    start     \* the version a chain was at when its unwinding began

vars == <<fs, mem, db, last, prev, nops, run, conv, start>>

----------------------------------------------------------------------------
(* Bounds of the model *)

MaxOps == 2          \* calls per behaviour
MaxInitVersion == 1  \* largest version a record starts with
MaxChain == 2        \* longest '.bak' chain a record starts with

Recs == {"r1", "r2"}

----------------------------------------------------------------------------
(* Strings *)

BAK == <<".", "b", "a", "k">>
JPG == <<".", "j", "p", "g">>
XMP4 == <<"x", ".", "m", "p", "4">>
None == <<>>

\* settings.MEDIA_ROOT (storage.location) and settings.MEDIA_URL
location == <<"/", "m">>
base_url == <<"/", "u", "/">>

\* str.rfind, 1-based; 0 when c does not occur (Python's -1)
RECURSIVE RFind(_, _)
RFind(s, c) ==
    IF s = <<>> THEN 0
    ELSE IF s[Len(s)] = c THEN Len(s)
    ELSE RFind(SubSeq(s, 1, Len(s) - 1), c)

\* os.path.splitext (genericpath._splitext): split at the last dot of the
\* last path component, unless that component has only leading dots before it
splitext(p) ==
    LET sepIndex == RFind(p, "/")
        dotIndex == RFind(p, ".")
    IN  IF /\ dotIndex > sepIndex
           /\ \E j \in (sepIndex + 1)..(dotIndex - 1) : p[j] # "."
        THEN [root |-> SubSeq(p, 1, dotIndex - 1), ext |-> SubSeq(p, dotIndex, Len(p))]
        ELSE [root |-> p, ext |-> <<>>]

\* os.path.join(storage.location, name) and videofile.path, for a relative name
Path(name) == location \o <<"/">> \o name

\* videofile.url
Url(name) == base_url \o name

\* mutant of PosterOf: '.jpg' is appended to the whole path
PosterOf_Append(path) == path \o JPG

\* the poster path derived from a video path (models.py lines 31-32)
PosterOf(path) == splitext(path).root \o JPG

\* the poster URL derived from a video URL (models.py lines 46-47)
PosterUrlOf(url) == splitext(url).root \o JPG

EndsWith(s, suf) ==
    /\ Len(s) >= Len(suf)
    /\ SubSeq(s, Len(s) - Len(suf) + 1, Len(s)) = suf

\* s followed by k copies of '.bak'
RECURSIVE Baks(_, _)
Baks(s, k) == IF k = 0 THEN s ELSE Baks(s, k - 1) \o BAK

----------------------------------------------------------------------------
(* Filesystem primitives *)

exists(f, p) == p \in DOMAIN f

\* mutant of rename: the file is copied, the source stays
rename_Copy(f, src, dst) ==
    [q \in DOMAIN f \cup {dst} |-> IF q = dst THEN f[src] ELSE f[q]]

\* os.rename on an existing source: a file at the destination is replaced
\* (where the platform refuses that, the call fails: fault "rename")
rename(f, src, dst) ==
    [q \in (DOMAIN f \ {src}) \cup {dst} |-> IF q = dst THEN f[src] ELSE f[q]]

\* os.unlink on an existing path
unlink(f, p) == [q \in DOMAIN f \ {p} |-> f[q]]

\* a new file at p
create(f, p, c) == [q \in DOMAIN f \cup {p} |-> IF q = p THEN c ELSE f[q]]

----------------------------------------------------------------------------
(* VideoPosterMixin *)

\* video.convertvideo.extract_frame(sourcefile, targetfile): writes the poster,
\* or fails (the source is missing, or the external tool fails: xok = FALSE)
extract_frame(f, src, dst, xok) ==
    IF exists(f, src) /\ xok
    THEN [ok |-> TRUE, fs |-> create(f, dst, "poster")]
    ELSE [ok |-> FALSE, fs |-> f]

\* mutant of poster_path: the poster is extracted whether or not it exists
\* and whatever create says
poster_path_Always(f, path, doCreate, xok) ==
    LET pp == PosterOf(path)
        x == extract_frame(f, path, pp, xok)
    IN  [fs |-> x.fs, ret |-> IF x.ok THEN pp ELSE None, raised |-> ~x.ok,
         extracts |-> 1, hit |-> ~xok /\ exists(f, path)]

\* mutant of poster_path: an absent poster is extracted whatever create says
poster_path_IgnoreCreate(f, path, doCreate, xok) ==
    LET pp == PosterOf(path)
        x == extract_frame(f, path, pp, xok)
    IN  IF ~exists(f, pp)
        THEN [fs |-> x.fs, ret |-> IF x.ok THEN pp ELSE None, raised |-> ~x.ok,
              extracts |-> 1, hit |-> ~xok /\ exists(f, path)]
        ELSE [fs |-> f, ret |-> pp, raised |-> FALSE, extracts |-> 0, hit |-> FALSE]

\* VideoPosterMixin.poster_path(create) for the video at path
poster_path(f, path, doCreate, xok) ==
    LET pp == PosterOf(path)
    IN  IF ~exists(f, pp)
        THEN IF doCreate
             THEN LET x == extract_frame(f, path, pp, xok)
                  IN  [fs |-> x.fs, ret |-> IF x.ok THEN pp ELSE None,
                       raised |-> ~x.ok, extracts |-> 1,
                       hit |-> ~xok /\ exists(f, path)]
             ELSE [fs |-> f, ret |-> None, raised |-> FALSE, extracts |-> 0,
                   hit |-> FALSE]
        ELSE [fs |-> f, ret |-> pp, raised |-> FALSE, extracts |-> 0, hit |-> FALSE]

\* mutant of poster_url: the URL is derived without looking for the poster
poster_url_NoLookup(f, name, xok) ==
    [fs |-> f, ret |-> PosterUrlOf(Url(name)), raised |-> FALSE, extracts |-> 0,
     hit |-> FALSE]

\* VideoPosterMixin.poster_url() for the video called name
poster_url(f, name, xok) ==
    LET p == poster_path(f, Path(name), TRUE, xok)
    IN  [fs |-> p.fs, ret |-> IF p.raised THEN None ELSE PosterUrlOf(Url(name)),
         raised |-> p.raised, extracts |-> p.extracts, hit |-> p.hit]

\* VideoPosterMixin.delete_files() for the video at path: one try block around
\* both unlinks, every exception swallowed
delete_files(f, path, fault) ==
    IF ~exists(f, path) \/ fault = "unlink_video"
    THEN [fs |-> f, extracts |-> 0, hit |-> fault = "unlink_video" /\ exists(f, path)]
    ELSE LET f1 == unlink(f, path)
             pp == poster_path(f1, path, FALSE, TRUE)
         IN  IF pp.ret = None
                 THEN [fs |-> pp.fs, extracts |-> pp.extracts, hit |-> FALSE]
             ELSE IF fault = "unlink"
                 THEN [fs |-> pp.fs, extracts |-> pp.extracts, hit |-> TRUE]
             ELSE [fs |-> unlink(pp.fs, pp.ret), extracts |-> pp.extracts, hit |-> FALSE]

----------------------------------------------------------------------------
(* GlossVideo.reversion *)

\* mutant of FindBackup: one '.bak' is appended without looking further
FindBackup_Once(f, newname, version) ==
    IF exists(f, Path(newname))
    THEN [name |-> newname \o BAK, version |-> version + 1]
    ELSE [name |-> newname, version |-> version]

\* the free-name loop of lines 133-136
RECURSIVE FindBackup(_, _, _)
FindBackup(f, newname, version) ==
    IF exists(f, Path(newname))
    THEN FindBackup(f, newname \o BAK, version + 1)
    ELSE [name |-> newname, version |-> version]

\* mutant of IsBackup: any extension passes for the chain suffix
IsBackup_AnyExt(ext) == ext # <<>>

\* line 124: the extension split off the name is the chain suffix
IsBackup(ext) == ext = BAK

\* mutant of Decrement: the version is lowered twice
Decrement_Twice(version) == version - 2

\* mutant of Decrement: the version is left as it was
Decrement_Skip(version) == version

\* line 130
Decrement(version) == version - 1

\* mutant of RemovePoster: the poster of the old path is left on disk
RemovePoster_Keep(f, oldpath) ==
    LET pp == poster_path(f, oldpath, FALSE, TRUE)
    IN  [poster |-> None, extracts |-> pp.extracts, before |-> pp.fs, fs |-> pp.fs]

\* lines 140-142: the poster of the old path is looked up without creating it
\* and removed when it exists (before: the storage if the unlink fails)
RemovePoster(f, oldpath) ==
    LET pp == poster_path(f, oldpath, FALSE, TRUE)
    IN  [poster |-> pp.ret, extracts |-> pp.extracts, before |-> pp.fs,
         fs |-> IF pp.ret # None THEN unlink(pp.fs, pp.ret) ELSE pp.fs]

\* reversion(revert) on the in-memory object m; fault names the step that the
\* environment makes fail ("none": no step)
reversion(f, m, revert, fault) ==
    IF revert /\ m.version = 0
    THEN LET d == delete_files(f, Path(m.name), fault)
         IN  [fs |-> d.fs, mem |-> m, saved |-> FALSE, deleted |-> TRUE,
              raised |-> FALSE, branch |-> "terminal", extracts |-> d.extracts,
              hit |-> d.hit]
    ELSE LET sp == splitext(m.name)
             fb == FindBackup(f, m.name, m.version)
             newname == IF revert THEN sp.root ELSE fb.name
             m1 == [m EXCEPT !.version = IF revert THEN Decrement(@) ELSE fb.version]
             src == Path(m.name)
             dst == Path(newname)
             f1 == rename(f, src, dst)
             rp == RemovePoster(f1, src)
             m2 == [m1 EXCEPT !.name = newname]
             out(ff, mm, sv, rs, br, ex, ht) ==
                 [fs |-> ff, mem |-> mm, saved |-> sv, deleted |-> FALSE,
                  raised |-> rs, branch |-> br, extracts |-> ex, hit |-> ht]
         IN  IF revert /\ ~IsBackup(sp.ext)
                 THEN out(f, m, FALSE, TRUE, "corrupt", 0, FALSE)
             ELSE IF ~exists(f, src)
                 THEN out(f, m1, FALSE, TRUE, "rename", 0, FALSE)
             ELSE IF fault = "rename"
                 THEN out(f, m1, FALSE, TRUE, "rename", 0, TRUE)
             ELSE IF rp.poster # None /\ fault = "unlink"
                 THEN out(rp.before, m1, FALSE, TRUE, "unlink", rp.extracts, TRUE)
             ELSE IF fault = "save"
                 THEN out(rp.fs, m2, FALSE, TRUE, "save", rp.extracts, TRUE)
             ELSE out(rp.fs, m2, TRUE, FALSE, "renamed", rp.extracts, FALSE)

----------------------------------------------------------------------------
(* State machine *)

Faults == {"none", "rename", "unlink", "unlink_video", "save"}

\* r1 holds the current video of the gloss, r2 the one it superseded
InitName == [r \in Recs |-> IF r = "r1" THEN XMP4 ELSE XMP4 \o BAK]
InitNames == {InitName[r] : r \in Recs}
InitFiles == {Path(n) : n \in InitNames} \cup {PosterOf(Path(n)) : n \in InitNames}

NoCall ==
    [op |-> "none", rec |-> "none", outcome |-> "none", branch |-> "none",
     fault |-> "none", extracts |-> 0, ret |-> None,
     pre |-> [fs |-> <<>>, mem |-> <<>>, db |-> <<>>]]

\* no request is executing reversion() step by step
NoRun == <<>>

\* no name was handed to a naming function
NoConv == [op |-> "none", name |-> <<>>, result |-> <<>>]

\* no chain is being unwound
NoStart == -1

Call(op, r, raised, branch, fault, extracts, ret) ==
    [op |-> op, rec |-> r, outcome |-> IF raised THEN "raised" ELSE "ok",
     branch |-> branch, fault |-> fault, extracts |-> extracts, ret |-> ret,
     pre |-> [fs |-> fs, mem |-> mem, db |-> db]]

\* the records were stored under distinct names (the storage hands out free
\* names) with any version; any of the video and poster files may be present,
\* a video file holding its record's video and a poster file a poster
Init ==
    /\ \E versions \in [Recs -> 0..MaxInitVersion] :
          /\ mem = [r \in Recs |-> [version |-> versions[r], name |-> InitName[r]]]
          /\ db = [r \in Recs |->
                     [exists |-> TRUE, version |-> versions[r], name |-> InitName[r]]]
    /\ \E present \in SUBSET InitFiles :
          fs = [p \in present |->
                  IF \E r \in Recs : Path(InitName[r]) = p
                  THEN CHOOSE r \in Recs : Path(InitName[r]) = p
                  ELSE "poster"]
    /\ last = NoCall
    /\ prev = NoCall
    /\ nops = 0
    /\ run = NoRun
    /\ conv = NoConv
    /\ start = NoStart

\* a call of reversion(revert) on r, under every step the environment may fail
Reversion(r, revert) ==
    /\ \E fault \in Faults :
          LET res == reversion(fs, mem[r], revert, fault)
          IN  /\ fault = "none" \/ res.hit
              /\ fs' = res.fs
              /\ mem' = [mem EXCEPT ![r] = res.mem]
              /\ db' = [db EXCEPT ![r] =
                          IF res.deleted THEN [@ EXCEPT !.exists = FALSE]
                          ELSE IF res.saved
                               THEN [exists |-> TRUE, version |-> res.mem.version,
                                     name |-> res.mem.name]
                               ELSE @]
              /\ last' = Call(IF revert THEN "revert" ELSE "advance", r, res.raised,
                              res.branch, fault, res.extracts, None)
    /\ prev' = last
    /\ nops' = nops + 1
    /\ UNCHANGED <<run, conv, start>>

\* reversion()
Advance(r) ==
    /\ nops < MaxOps
    /\ db[r].exists
    /\ Reversion(r, FALSE)

\* reversion(revert=True)
Revert(r) ==
    /\ nops < MaxOps
    /\ db[r].exists
    /\ Reversion(r, TRUE)

\* poster_path(create)
PosterPath(r, doCreate) ==
    /\ nops < MaxOps
    /\ db[r].exists
    /\ \E xok \in BOOLEAN :
          LET res == poster_path(fs, Path(mem[r].name), doCreate, xok)
          IN  /\ xok \/ res.hit
              /\ fs' = res.fs
              /\ last' = Call(IF doCreate THEN "poster_path_create"
                              ELSE "poster_path_nocreate", r, res.raised,
                              "none", IF xok THEN "none" ELSE "extract",
                              res.extracts, res.ret)
    /\ prev' = last
    /\ nops' = nops + 1
    /\ UNCHANGED <<mem, db, run, conv, start>>

\* poster_url()
PosterUrl(r) ==
    /\ nops < MaxOps
    /\ db[r].exists
    /\ \E xok \in BOOLEAN :
          LET res == poster_url(fs, mem[r].name, xok)
          IN  /\ xok \/ res.hit
              /\ fs' = res.fs
              /\ last' = Call("poster_url", r, res.raised, "none",
                              IF xok THEN "none" ELSE "extract", res.extracts, res.ret)
    /\ prev' = last
    /\ nops' = nops + 1
    /\ UNCHANGED <<mem, db, run, conv, start>>

Next ==
    \E r \in Recs :
        \/ Advance(r)
        \/ Revert(r)
        \/ \E doCreate \in BOOLEAN : PosterPath(r, doCreate)
        \/ PosterUrl(r)

Spec == Init /\ [][Next]_vars

----------------------------------------------------------------------------
(* What the logs say about the last call and the one before it *)

IsReversion(c) == c.op \in {"advance", "revert"}

\* the object the call c was made on, as it was before the call
PreMem(c) == c.pre.mem[c.rec]
PreName(c) == PreMem(c).name
PreVersion(c) == PreMem(c).version
PrePath(c) == Path(PreName(c))

\* the persisted row says version v and name n
Persisted(r, v, n) == db[r] = [exists |-> TRUE, version |-> v, name |-> n]

\* s without its last n characters
DropLast(s, n) == SubSeq(s, 1, Len(s) - n)

----------------------------------------------------------------------------
(* C1 *)

\* an advance of a version-0 record whose file exists, then a revert of the
\* same record, no step of either failing in the environment
RoundTripCase ==
    /\ prev.op = "advance" /\ prev.fault = "none"
    /\ last.op = "revert" /\ last.fault = "none"
    /\ last.rec = prev.rec
    /\ PreVersion(prev) = 0
    /\ exists(prev.pre.fs, PrePath(prev))

RoundTripRestored ==
    LET r == last.rec
        F == PreName(prev)
    IN  /\ last.outcome = "ok"
        /\ mem[r] = [version |-> 0, name |-> F]
        /\ Persisted(r, 0, F)
        /\ exists(fs, Path(F))
        /\ fs[Path(F)] = prev.pre.fs[Path(F)]

\* C1 as claimed: for a record at version 0 whose video file exists at F,
\* reversion() followed by reversion(revert=True) leaves version 0, filename F
\* and the video file at F.
C1_RoundTripAnyStorage == RoundTripCase => RoundTripRestored

\* C1 amended: the round trip restores version 0, filename F and the video
\* file at F when, in addition, no file exists at F.bak before the advance.
C1_RoundTrip ==
    RoundTripCase /\ ~exists(prev.pre.fs, Path(PreName(prev) \o BAK))
        => RoundTripRestored

C1_Witness ==
    /\ RoundTripCase
    /\ ~exists(prev.pre.fs, Path(PreName(prev) \o BAK))
    /\ last.outcome = "ok"

----------------------------------------------------------------------------
(* C2 *)

\* an advance of a record whose file exists, no step failing in the environment
AdvanceCase ==
    /\ last.op = "advance" /\ last.fault = "none"
    /\ exists(last.pre.fs, PrePath(last))

----------------------------------------------------------------------------
(* C3 *)

\* C3 as claimed: for a record at version 0, reversion(revert=True) ends with
\* the record deleted and neither the video file nor its poster file on disk,
\* whatever files were there before, and without raising.
C3_TerminalRevert ==
    last.op = "revert" /\ PreVersion(last) = 0 /\ last.fault = "none"
        => /\ last.outcome = "ok"
           /\ ~db[last.rec].exists
           /\ ~exists(fs, PrePath(last))
           /\ ~exists(fs, PosterOf(PrePath(last)))

----------------------------------------------------------------------------
(* C4 *)

CorruptCase ==
    /\ last.op = "revert"
    /\ PreVersion(last) > 0
    /\ ~EndsWith(PreName(last), BAK)

\* C4: for a record with version > 0 whose filename does not end in '.bak',
\* reversion(revert=True) raises and leaves the filesystem, the record's
\* version and filename and the persisted rows as they were.
C4_CorruptChain ==
    CorruptCase
        => /\ last.outcome = "raised"
           /\ fs = last.pre.fs
           /\ mem = last.pre.mem
           /\ db = last.pre.db

C4_Witness == CorruptCase /\ exists(fs, PrePath(last)) /\ last.outcome = "raised"

----------------------------------------------------------------------------
(* C5 *)

RevertCase ==
    /\ last.op = "revert" /\ last.fault = "none"
    /\ PreVersion(last) > 0
    /\ EndsWith(PreName(last), BAK)
    /\ exists(last.pre.fs, PrePath(last))

\* C5: for a record with version v > 0 whose filename ends in '.bak' and whose
\* file exists, reversion(revert=True) strips exactly one trailing '.bak',
\* sets version to v - 1, moves the file from the suffixed name to the
\* restored name, persists (version, filename) and keeps the record.
C5_NonTerminalRevert ==
    RevertCase =>
        LET r == last.rec
            old == PreName(last)
            new == DropLast(old, Len(BAK))
        IN  /\ last.outcome = "ok"
            /\ mem[r] = [version |-> PreVersion(last) - 1, name |-> new]
            /\ Persisted(r, PreVersion(last) - 1, new)
            /\ exists(fs, Path(new))
            /\ fs[Path(new)] = last.pre.fs[Path(old)]
            /\ ~exists(fs, Path(old))

C5_Witness == RevertCase /\ last.outcome = "ok" /\ db[last.rec].exists

----------------------------------------------------------------------------
(* C6 *)

\* the os.rename step of an advance or of a non-terminal revert failed
RenameFailed == IsReversion(last) /\ last.branch = "rename"

\* C6 as claimed: if the os.rename step of advance or of non-terminal revert
\* fails, the call raises, the in-memory version and filename equal their
\* values before the call, and nothing is persisted.
C6_RenameFailureAtomic ==
    RenameFailed
        => /\ last.outcome = "raised"
           /\ mem[last.rec] = PreMem(last)
           /\ db = last.pre.db

----------------------------------------------------------------------------
(* C7 *)

\* an advance or a non-terminal revert that returned
Renamed == IsReversion(last) /\ last.branch = "renamed" /\ last.outcome = "ok"

IsPoster(p) == EndsWith(p, JPG)

\* C7: after every successful advance or non-terminal revert no poster file
\* exists at the poster path of the pre-operation video path, the call made no
\* frame extraction, and it created no poster file.
C7_PosterInvalidated ==
    Renamed
        => /\ ~exists(fs, PosterOf(PrePath(last)))
           /\ last.extracts = 0
           /\ \A p \in DOMAIN fs : IsPoster(p) => exists(last.pre.fs, p)

\* the poster of the old path was there before the call
C7_Witness == Renamed /\ exists(last.pre.fs, PosterOf(PrePath(last)))

----------------------------------------------------------------------------
(* C8 *)

\* u ends in an extension: a dot followed by characters other than '.' and '/',
\* with a name before it; the result is u with that extension replaced by .jpg
SwapExtension(u) ==
    LET i == CHOOSE i \in 2..Len(u) :
                 /\ u[i] = "."
                 /\ u[i - 1] \notin {".", "/"}
                 /\ \A j \in (i + 1)..Len(u) : u[j] \notin {".", "/"}
    IN  SubSeq(u, 1, i - 1) \o JPG

\* C8 as claimed: for every filesystem state poster_url() performs no frame
\* extraction and leaves the filesystem unchanged.
C8_PosterUrlNeverGenerates ==
    last.op = "poster_url" => last.extracts = 0 /\ fs = last.pre.fs

\* C8 amended: poster_url() invokes frame extraction exactly when the poster
\* file is absent (it calls poster_path(create=True) first); when the poster
\* exists it performs no extraction and leaves the filesystem unchanged; the
\* URL it returns is the video URL with its extension swapped for .jpg.
C8_PosterUrl ==
    last.op = "poster_url" =>
        LET had == exists(last.pre.fs, PosterOf(PrePath(last)))
        IN  /\ last.extracts = (IF had THEN 0 ELSE 1)
            /\ had => fs = last.pre.fs /\ last.outcome = "ok"
            /\ last.outcome = "ok" => last.ret = SwapExtension(Url(PreName(last)))

\* the poster was absent, was generated, and the URL came back
C8_Witness ==
    /\ last.op = "poster_url"
    /\ last.outcome = "ok"
    /\ ~exists(last.pre.fs, PosterOf(PrePath(last)))
    /\ exists(fs, PosterOf(PrePath(last)))

----------------------------------------------------------------------------
(* C9 *)

\* two consecutive poster_path(create=True) calls on the same video that both
\* returned
TwicePosterPath ==
    /\ prev.op = "poster_path_create" /\ prev.outcome = "ok"
    /\ last.op = "poster_path_create" /\ last.outcome = "ok"
    /\ last.rec = prev.rec

\* C9: two consecutive poster_path(create=True) calls on the same video
\* perform frame extraction at most once and return the same path both times;
\* a call made when the poster file exists returns it without extraction.
C9_EnsurePosterIdempotent ==
    /\ TwicePosterPath
          => /\ prev.extracts + last.extracts <= 1
             /\ last.ret = prev.ret
             /\ last.ret = PosterOf(PrePath(last))
    /\ last.op = "poster_path_create" /\ exists(last.pre.fs, PosterOf(PrePath(last)))
          => /\ last.extracts = 0
             /\ last.outcome = "ok"
             /\ last.ret = PosterOf(PrePath(last))
             /\ fs = last.pre.fs

\* the first call extracted the poster, the second found it
C9_Witness == TwicePosterPath /\ prev.extracts = 1 /\ last.extracts = 0

----------------------------------------------------------------------------
(* C10 *)

\* C10: poster_path(create=False) never invokes frame extraction and never
\* changes the filesystem; it returns the poster path exactly when the poster
\* file exists and None exactly when it does not.
C10_NoCreate ==
    last.op = "poster_path_nocreate"
        => /\ last.extracts = 0
           /\ fs = last.pre.fs
           /\ last.outcome = "ok"
           /\ last.ret = (IF exists(last.pre.fs, PosterOf(PrePath(last)))
                          THEN PosterOf(PrePath(last)) ELSE None)

\* the poster is absent while the video is there: None comes back
C10_Witness ==
    /\ last.op = "poster_path_nocreate"
    /\ exists(fs, PrePath(last))
    /\ last.ret = None

----------------------------------------------------------------------------
(* C11 *)

\* the last call deleted the row of r
Deleted(r) == last.op # "none" /\ last.pre.db[r].exists /\ ~db[r].exists

\* C11: the record is deleted only by a reversion(revert=True) call made on it
\* while its version is 0; advance never deletes the record, revert at
\* version > 0 never deletes it, and version is never negative.
C11_DeletedOnlyFromZero ==
    /\ \A r \in Recs :
          Deleted(r) => last.op = "revert" /\ last.rec = r /\ PreVersion(last) = 0
    /\ last.op = "advance" => db[last.rec].exists
    /\ last.op = "revert" /\ PreVersion(last) > 0 => db[last.rec].exists
    /\ \A r \in Recs : mem[r].version >= 0 /\ db[r].version >= 0

\* a revert at version 0 deleted the record; before it, a revert at version 1
\* had kept it
C11_Witness ==
    /\ Deleted(last.rec)
    /\ prev.op = "revert" /\ prev.rec = last.rec /\ PreVersion(prev) = 1

----------------------------------------------------------------------------
(* C17 *)

\* an advance or revert ended with an error
Failed == IsReversion(last) /\ last.outcome = "raised"

\* the file the persisted row of r named before the call is still where the
\* row says
RowNamesFile(r) ==
    exists(last.pre.fs, Path(last.pre.db[r].name))
        => /\ exists(fs, Path(db[r].name))
           /\ fs[Path(db[r].name)] = last.pre.fs[Path(last.pre.db[r].name)]

\* C17 as claimed: whenever advance or revert terminates with an error at any
\* step, the persisted filename still names the location of the video file:
\* the file is never renamed on disk while the row carries the old filename.
C17_NoPartialState == Failed => RowNamesFile(last.rec)

\* C17 amended: an error at the '.bak' check or at the rename step leaves the
\* filesystem and the persisted rows as they were; an error at the poster
\* unlink or at save is raised after the rename, so the file has left its old
\* name on disk while the persisted row still carries the old filename.
C17_PartialStateAfterRename ==
    Failed =>
        /\ db = last.pre.db
        /\ last.branch \in {"corrupt", "rename", "unlink", "save"}
        /\ last.branch \in {"corrupt", "rename"} => fs = last.pre.fs
        /\ last.branch \in {"unlink", "save"}
              => /\ exists(last.pre.fs, PrePath(last))
                 /\ ~exists(fs, PrePath(last))
                 /\ \E p \in DOMAIN fs : /\ p # PrePath(last)
                                         /\ fs[p] = last.pre.fs[PrePath(last)]

\* the poster unlink failed after the rename: the row's name is stale
C17_Witness ==
    /\ Failed /\ last.branch = "unlink"
    /\ db[last.rec].name = PreName(last)
    /\ ~exists(fs, Path(db[last.rec].name))

----------------------------------------------------------------------------
(* C18 *)

\* before the last call the file named by the row of r held r's video
HeldOwnFile(r) ==
    /\ last.op # "none"
    /\ last.pre.db[r].exists
    /\ exists(last.pre.fs, Path(last.pre.db[r].name))
    /\ last.pre.fs[Path(last.pre.db[r].name)] = r

\* C18 as claimed: with several records sharing the storage root and all
\* calls serialized, no advance or revert renames a file onto a path where a
\* file already exists, so no two live records have the same filename and no
\* record's video content is lost except through its own terminal revert.
C18_NoClobber ==
    /\ IsReversion(last) /\ last.fault = "none"
          => \A p \in DOMAIN last.pre.fs \cap DOMAIN fs : fs[p] = last.pre.fs[p]
    /\ \A r \in Recs :
          HeldOwnFile(r) /\ last.fault = "none"
                         /\ ~(last.rec = r /\ last.branch = "terminal")
              => \E p \in DOMAIN fs : fs[p] = r
    /\ \A r, s \in Recs :
          r # s /\ HeldOwnFile(r) /\ HeldOwnFile(s) /\ db[r].exists /\ db[s].exists
              => db[r].name # db[s].name

----------------------------------------------------------------------------
(* Repeated revert of one record *)

\* the other names of the chain of x.mp4 below n suffixes, and the posters of
\* the chain up to n
ChainFiles(n) ==
    {Path(Baks(XMP4, j)) : j \in 0..(n - 1)}
        \cup {PosterOf(Path(Baks(XMP4, j))) : j \in 0..n}

\* r1 is at version n under the name x.mp4 with n '.bak' suffixes and its file
\* exists; other files of the chain may be there; r2 has no row
InitChain ==
    /\ \E n \in 0..MaxChain :
          /\ start = n
          /\ mem = [r \in Recs |-> [version |-> n, name |-> Baks(XMP4, n)]]
          /\ db = [r \in Recs |->
                     [exists |-> r = "r1", version |-> n, name |-> Baks(XMP4, n)]]
          /\ \E present \in SUBSET ChainFiles(n) :
                fs = [p \in present \cup {Path(Baks(XMP4, n))} |->
                        IF p = Path(Baks(XMP4, n)) THEN "r1"
                        ELSE IF EndsWith(p, JPG) THEN "poster" ELSE "other"]
    /\ last = NoCall
    /\ prev = NoCall
    /\ nops = 0
    /\ run = NoRun
    /\ conv = NoConv

\* one more reversion(revert=True) on r, no step failing in the environment
RevertAgain(r) ==
    /\ db[r].exists
    /\ nops <= MaxChain
    /\ Reversion(r, TRUE)
    /\ last'.fault = "none"

NextChain == \E r \in Recs : RevertAgain(r)

\* the caller keeps calling while the record is there
SpecChain == InitChain /\ [][NextChain]_vars /\ WF_vars(NextChain)

----------------------------------------------------------------------------
(* C12 *)

\* C12: for a record at version n whose filename carries n trailing '.bak'
\* suffixes and whose file exists, every reversion(revert=True) returns and
\* lowers version by exactly one while the record is there (after k calls it
\* is n - k), the guard of the next call holds, and the record is deleted by
\* call number n + 1, no sooner and no later.
C12_RevertToDeletion ==
    /\ last.op # "none" => last.op = "revert" /\ last.outcome = "ok"
    /\ db["r1"].exists
          => /\ nops <= start
             /\ mem["r1"].version = start - nops
             /\ db["r1"].version = start - nops
             /\ nops <= MaxChain
    /\ ~db["r1"].exists
          => /\ nops = start + 1
             /\ PreVersion(last) = 0

\* the longest chain was unwound and the record deleted
C12_Witness == ~db["r1"].exists /\ nops = MaxChain + 1 /\ start = MaxChain

----------------------------------------------------------------------------
(* reversion() step by step: two requests advancing the same record *)

Procs == {"p1", "p2"}

\* the longest taken name ahead of x.mp4 at the start, in '.bak' suffixes
MaxTaken == 1

\* files that may be there beside x.mp4: taken names of its chain and posters
RaceFiles ==
    {Path(Baks(XMP4, j)) : j \in 1..MaxTaken}
        \cup {PosterOf(Path(Baks(XMP4, j))) : j \in 0..1}

\* mutant of LoopStep: the version is raised but '.bak' is not appended
LoopStep_SameName(f, newname, version) ==
    IF exists(f, Path(newname))
    THEN [again |-> TRUE, name |-> newname, version |-> version + 1]
    ELSE [again |-> FALSE, name |-> newname, version |-> version]

\* one test of the while condition of line 134 and, when it holds, one
\* execution of the loop body (lines 135-136)
LoopStep(f, newname, version) ==
    IF exists(f, Path(newname))
    THEN [again |-> TRUE, name |-> newname \o BAK, version |-> version + 1]
    ELSE [again |-> FALSE, name |-> newname, version |-> version]

\* mutant of Saved: the row is saved without the new name
Saved_OldName(version, name, newname) ==
    [exists |-> TRUE, version |-> version, name |-> name]

\* lines 144-145: the row written by save() once the name is updated
Saved(version, name, newname) ==
    [exists |-> TRUE, version |-> version, name |-> newname]

Idle ==
    [pc |-> "idle", version |-> 0, name |-> <<>>, newname |-> <<>>,
     orig |-> <<>>, iters |-> 0, tested |-> <<>>, fs0 |-> <<>>]

\* the row of r1 is at version 0 under x.mp4 and its file exists; taken names
\* and posters may be there; the requests are serialized per record or not
InitRace ==
    /\ mem = [r \in Recs |-> [version |-> 0, name |-> XMP4]]
    /\ db = [r \in Recs |-> [exists |-> r = "r1", version |-> 0, name |-> XMP4]]
    /\ \E present \in SUBSET RaceFiles :
          fs = [p \in present \cup {Path(XMP4)} |->
                  IF p = Path(XMP4) THEN "r1"
                  ELSE IF EndsWith(p, JPG) THEN "poster" ELSE "other"]
    /\ \E serial \in BOOLEAN :
          run = [serial |-> serial, proc |-> [p \in Procs |-> Idle]]
    /\ last = NoCall
    /\ prev = NoCall
    /\ nops = 0
    /\ conv = NoConv
    /\ start = NoStart

Pc(p) == run.proc[p].pc

Quiet(p) == Pc(p) \in {"idle", "done", "failed"}

SetProc(p, o) == run' = [run EXCEPT !.proc[p] = o]

\* the request gets the record and enters reversion(): line 133
Load(p) ==
    /\ Pc(p) = "idle"
    /\ db["r1"].exists
    /\ run.serial => \A q \in Procs : Quiet(q)
    /\ SetProc(p, [pc |-> "loop", version |-> db["r1"].version,
                   name |-> db["r1"].name, newname |-> db["r1"].name,
                   orig |-> db["r1"].name, iters |-> 0, tested |-> <<>>, fs0 |-> fs])
    /\ UNCHANGED <<fs, mem, db, last, prev, nops, conv, start>>

\* line 134, and lines 135-136 when the name is taken
Test(p) ==
    /\ Pc(p) = "loop"
    /\ LET o == run.proc[p]
           st == LoopStep(fs, o.newname, o.version)
       IN  SetProc(p, [o EXCEPT !.pc = IF st.again THEN "loop" ELSE "rename",
                                !.newname = st.name,
                                !.version = st.version,
                                !.iters = IF st.again THEN @ + 1 ELSE @,
                                !.tested = Append(@, o.newname)])
    /\ UNCHANGED <<fs, mem, db, last, prev, nops, conv, start>>

\* line 138: os.rename raises when the source is gone
Rename(p) ==
    /\ Pc(p) = "rename"
    /\ LET o == run.proc[p]
       IN  IF exists(fs, Path(o.name))
           THEN /\ fs' = rename(fs, Path(o.name), Path(o.newname))
                /\ SetProc(p, [o EXCEPT !.pc = "poster"])
           ELSE /\ fs' = fs
                /\ SetProc(p, [o EXCEPT !.pc = "failed"])
    /\ UNCHANGED <<mem, db, last, prev, nops, conv, start>>

\* lines 140-142
Poster(p) ==
    /\ Pc(p) = "poster"
    /\ fs' = RemovePoster(fs, Path(run.proc[p].name)).fs
    /\ SetProc(p, [run.proc[p] EXCEPT !.pc = "save"])
    /\ UNCHANGED <<mem, db, last, prev, nops, conv, start>>

\* lines 144-145
Save(p) ==
    /\ Pc(p) = "save"
    /\ LET o == run.proc[p]
       IN  /\ db' = [db EXCEPT !["r1"] = Saved(o.version, o.name, o.newname)]
           /\ SetProc(p, [o EXCEPT !.pc = "done", !.name = o.newname])
    /\ UNCHANGED <<fs, mem, last, prev, nops, conv, start>>

NextRace ==
    \E p \in Procs : Load(p) \/ Test(p) \/ Rename(p) \/ Poster(p) \/ Save(p)

SpecRace == InitRace /\ [][NextRace]_vars

----------------------------------------------------------------------------
(* C13 *)

\* a rename failed on a missing source, or no request is under way and the
\* row's version and filename do not match the file on disk
Corrupted ==
    \/ \E p \in Procs : Pc(p) = "failed"
    \/ /\ \A p \in Procs : Quiet(p)
       /\ ~ /\ exists(fs, Path(db["r1"].name))
            /\ fs[Path(db["r1"].name)] = "r1"
            /\ \E k \in 0..(MaxTaken + Cardinality(Procs)) :
                  /\ db["r1"].version = k
                  /\ db["r1"].name = Baks(XMP4, k)

\* C13: with the advances of one record serialized no corrupted state is
\* reachable (unserialized, one is: see the witness).
C13_SerializedNoCorruption == run.serial => ~Corrupted

\* unserialized: both requests chose the same candidate name and the rename
\* of one failed on the missing source
C13_Witness ==
    /\ ~run.serial
    /\ Pc("p1") = "done" /\ Pc("p2") = "failed"
    /\ run.proc["p1"].newname = run.proc["p2"].newname
    /\ Corrupted

----------------------------------------------------------------------------
(* C19 *)

\* the files of the chain of name that exist in f
ChainCount(f, name) ==
    Cardinality({j \in 0..Cardinality(DOMAIN f) : exists(f, Path(Baks(name, j)))})

\* C19: when no other actor touches the storage during the call, the
\* free-name loop of advance runs its body at most as many times as there are
\* chain files for the name, and never tests a name it tested before.
C19_LoopTerminates ==
    \A p \in Procs :
        run.serial /\ Pc(p) # "idle" =>
            LET o == run.proc[p]
            IN  /\ o.iters <= ChainCount(o.fs0, o.orig)
                /\ Len(o.tested) <= o.iters + 1
                /\ \A i, j \in 1..Len(o.tested) : i # j => o.tested[i] # o.tested[j]
                /\ Pc(p) # "loop" => Len(o.tested) = o.iters + 1

\* the loop ended after two iterations: x.mp4 and x.mp4.bak were taken
C19_Witness ==
    \E p \in Procs :
        /\ run.serial /\ Pc(p) = "rename"
        /\ run.proc[p].iters = 2
        /\ run.proc[p].tested = <<XMP4, Baks(XMP4, 1), Baks(XMP4, 2)>>

----------------------------------------------------------------------------
(* Naming functions: get_valid_name and the poster path derivation *)

MaxLen == 5   \* longest name handed to a naming function

Alphabet == {"a", "b", "/", "."}

\* all strings over Alphabet of length n
RECURSIVE Strings(_)
Strings(n) ==
    IF n = 0 THEN {<<>>}
    ELSE {Append(w, c) : w \in Strings(n - 1), c \in Alphabet}

\* the example path of the poster derivation
Clip == <<"a", "/", "b", "/", "c", "l", "i", "p", ".", "t", "a", "r", ".", "m", "p", "4">>

Names == UNION {Strings(n) : n \in 0..MaxLen} \cup {Clip}

\* str.rstrip('/')
RECURSIVE RStrip(_)
RStrip(s) ==
    IF s # <<>> /\ s[Len(s)] = "/" THEN RStrip(SubSeq(s, 1, Len(s) - 1)) ELSE s

\* os.path.split (posixpath): everything after the last slash is the tail; the
\* head loses its trailing slashes unless it consists of slashes only
split(p) ==
    LET i == RFind(p, "/")
        head == SubSeq(p, 1, i)
    IN  [head |-> IF RStrip(head) # <<>> THEN RStrip(head) ELSE head,
         tail |-> SubSeq(p, i + 1, Len(p))]

\* os.path.join(a, b) (posixpath)
join(a, b) ==
    IF b # <<>> /\ b[1] = "/" THEN b
    ELSE IF a = <<>> \/ a[Len(a)] = "/" THEN a \o b
    ELSE a \o <<"/">> \o b

\* s[:n]
Prefix(s, n) == SubSeq(s, 1, IF Len(s) < n THEN Len(s) ELSE n)

\* mutant of get_valid_name: the partition directory is one character
get_valid_name_OneChar(name) ==
    LET sp == split(name)
    IN  join(sp.head, join(Prefix(sp.tail, 1), sp.tail))

\* GlossVideoStorage.get_valid_name
get_valid_name(name) ==
    LET sp == split(name)
        targetdir == sp.head
        basename == sp.tail
        path == join(Prefix(basename, 2), basename)
    IN  join(targetdir, path)

\* the poster paths of the chain names F, F.bak, F.bak.bak
ChainPosters(F) == [j \in 1..3 |-> PosterOf(Path(Baks(F, j - 1)))]

InitNaming ==
    /\ \E n \in Names : conv = [op |-> "input", name |-> n, result |-> <<>>]
    /\ mem = [r \in Recs |-> [version |-> 0, name |-> XMP4]]
    /\ db = [r \in Recs |-> [exists |-> FALSE, version |-> 0, name |-> XMP4]]
    /\ fs = <<>>
    /\ last = NoCall
    /\ prev = NoCall
    /\ nops = 0
    /\ run = NoRun
    /\ start = NoStart

\* a relative name of a file: its basename is not empty, '.' or '..'
FileName(name) ==
    IF name = <<>> THEN FALSE
    ELSE /\ name[1] # "/"
         /\ split(name).tail \notin {<<>>, <<".">>, <<".", ".">>}

\* storage.get_valid_name(name)
GetValidName ==
    /\ conv.op = "input"
    /\ conv' = [conv EXCEPT !.op = "get_valid_name", !.result = get_valid_name(conv.name)]
    /\ UNCHANGED <<fs, mem, db, last, prev, nops, run, start>>

\* the poster path of the video stored under the name (lines 31-32)
DerivePoster ==
    /\ conv.op = "input"
    /\ FileName(conv.name)
    /\ conv' = [conv EXCEPT !.op = "poster", !.result = PosterOf(Path(conv.name))]
    /\ UNCHANGED <<fs, mem, db, last, prev, nops, run, start>>

\* the poster paths of the name and of its two backups
DeriveChainPosters ==
    /\ conv.op = "input"
    /\ FileName(conv.name)
    /\ conv' = [conv EXCEPT !.op = "chain", !.result = ChainPosters(conv.name)]
    /\ UNCHANGED <<fs, mem, db, last, prev, nops, run, start>>

NextNaming == GetValidName \/ DerivePoster \/ DeriveChainPosters

SpecNaming == InitNaming /\ [][NextNaming]_vars

----------------------------------------------------------------------------
(* C14 *)

\* dir followed by a separator, when there is a dir that lacks one
WithSep(dir) ==
    IF dir = <<>> \/ dir[Len(dir)] = "/" THEN dir ELSE dir \o <<"/">>

\* C14: with the name split into (dir, basename), get_valid_name returns
\* dir / basename[0:2] / basename: the basename is kept as it is, the
\* partition directory is its first two characters (all of it when shorter),
\* and an empty basename gives the dir alone with its separator.
C14_ShadowPath ==
    conv.op = "get_valid_name" =>
        LET sp == split(conv.name)
            dir == sp.head
            basename == sp.tail
            prefix == IF Len(basename) < 2 THEN basename
                      ELSE <<basename[1], basename[2]>>
            out == split(conv.result)
        IN  /\ basename # <<>> =>
                /\ conv.result = WithSep(dir) \o prefix \o <<"/">> \o basename
                /\ out.tail = basename
                /\ split(out.head).tail = prefix
            /\ basename = <<>> => conv.result = WithSep(dir)
            /\ conv.result = get_valid_name(conv.name)

\* a name with a directory and a basename longer than its partition directory
C14_Witness ==
    /\ conv.op = "get_valid_name"
    /\ conv.name = <<"a", "/", "b", "a", "b">>
    /\ conv.result = <<"a", "/", "b", "a", "/", "b", "a", "b">>

----------------------------------------------------------------------------
(* C15 *)

\* res is P with its final extension, a dot and what follows it up to the
\* end without a further dot or slash, replaced by '.jpg'
ExtReplaced(P, res) ==
    \E i \in 1..Len(P) :
        /\ P[i] = "."
        /\ \A j \in (i + 1)..Len(P) : P[j] \notin {".", "/"}
        /\ res = SubSeq(P, 1, i - 1) \o JPG

HasExt(P) == splitext(P).ext # <<>>

PosterCase == conv.op = "poster" /\ HasExt(Path(conv.name))

ChainCase == conv.op = "chain"

Distinct(ps) == \A i, j \in DOMAIN ps : i # j => ps[i] # ps[j]

\* C15 as claimed: the poster paths of F, F.bak, F.bak.bak are pairwise
\* distinct for every F.
C15_ChainPostersDistinct ==
    /\ PosterCase => ExtReplaced(Path(conv.name), conv.result)
    /\ ChainCase => Distinct(conv.result)

\* C15: for a video path P with an extension the poster path is P with only
\* the final extension replaced by '.jpg', the directory kept; without an
\* extension '.jpg' is appended. The poster paths of F, F.bak, F.bak.bak are
\* pairwise distinct when F has an extension, and only then.
C15_PosterPath ==
    /\ PosterCase =>
          /\ ExtReplaced(Path(conv.name), conv.result)
          /\ split(conv.result).head = split(Path(conv.name)).head
    /\ conv.op = "poster" /\ ~HasExt(Path(conv.name)) =>
          conv.result = Path(conv.name) \o JPG
    /\ ChainCase /\ HasExt(Path(conv.name)) => Distinct(conv.result)
    /\ ChainCase /\ ~HasExt(Path(conv.name)) =>
          /\ conv.result[1] = Path(conv.name) \o JPG
          /\ ~Distinct(conv.result)

\* the chain of a/b/clip.tar.mp4: clip.tar.jpg, clip.tar.mp4.jpg, clip.tar.mp4.bak.jpg
C15_Witness ==
    /\ ChainCase
    /\ conv.name = Clip
    /\ conv.result[1] = Path(SubSeq(Clip, 1, 12) \o JPG)
    /\ conv.result[2] = Path(Clip \o JPG)
    /\ conv.result[3] = Path(Clip \o BAK \o JPG)

----------------------------------------------------------------------------
(* Completed calls only: advances and non-terminal reverts of one record *)

MaxCalls == 6   \* calls made on the record

\* r1 is at version 0 under x.mp4 and its file exists; taken names and posters
\* may be there; r2 has no row
InitCompleted ==
    /\ mem = [r \in Recs |-> [version |-> 0, name |-> XMP4]]
    /\ db = [r \in Recs |-> [exists |-> r = "r1", version |-> 0, name |-> XMP4]]
    /\ \E present \in SUBSET RaceFiles :
          fs = [p \in present \cup {Path(XMP4)} |->
                  IF p = Path(XMP4) THEN "r1"
                  ELSE IF EndsWith(p, JPG) THEN "poster" ELSE "other"]
    /\ last = NoCall
    /\ prev = NoCall
    /\ nops = 0
    /\ run = NoRun
    /\ conv = NoConv
    /\ start = NoStart

\* reversion() returned
AdvanceDone(r) ==
    /\ db[r].exists
    /\ nops < MaxCalls
    /\ Reversion(r, FALSE)
    /\ last'.outcome = "ok"

\* reversion(revert=True) of a record above version 0 returned
RevertDone(r) ==
    /\ db[r].exists
    /\ nops < MaxCalls
    /\ Reversion(r, TRUE)
    /\ last'.branch = "renamed"

NextCompleted == \E r \in Recs : AdvanceDone(r) \/ RevertDone(r)

SpecCompleted == InitCompleted /\ [][NextCompleted]_vars

----------------------------------------------------------------------------
(* C16 *)

\* the number of '.bak' suffixes s ends with
RECURSIVE TrailingBaks(_)
TrailingBaks(s) ==
    IF EndsWith(s, BAK) THEN 1 + TrailingBaks(DropLast(s, Len(BAK))) ELSE 0

\* C16: from version 0 under a name without '.bak', after completed advances
\* and non-terminal reverts the persisted version is the number of trailing
\* '.bak' suffixes of the persisted filename, and the in-memory record agrees
\* with the persisted one.
C16_VersionIsSuffixCount ==
    /\ db["r1"].exists
    /\ db["r1"].version = TrailingBaks(db["r1"].name)
    /\ db["r1"].name = Baks(XMP4, db["r1"].version)
    /\ mem["r1"].version = db["r1"].version
    /\ mem["r1"].name = db["r1"].name

\* an advance past a taken name went to version 2, a revert came back to 1
C16_Witness ==
    /\ last.op = "revert" /\ last.outcome = "ok" /\ PreVersion(last) = 2
    /\ prev.op = "advance" /\ PreVersion(prev) = 0
    /\ db["r1"].version = 1
    /\ db["r1"].name = Baks(XMP4, 1)

====
